---- MODULE Spec2Model ----
(***************************************************************************)
(* Model of the asynchronous job-submission and polling engine of          *)
(* modules/video_generator.py: VideoGenerator.generate_video (retry loop), *)
(* check_status (status payload -> result), wait_for_completion (polling   *)
(* loop with wall-clock timeout) and batch_generate (semaphore-bounded     *)
(* fan-out, per-job exception capture, gather).                            *)
(*                                                                         *)
(* Python's None is the value None below; a str/datetime field holds       *)
(* either None or a string.  datetime.now() is the token Now.              *)
(***************************************************************************)
EXTENDS Integers, Sequences, FiniteSets, TLC

\* ------------------------------------------------------------ configuration
\* config.py
MAX_RETRIES == 3
RETRY_DELAY == 2
POLLING_INTERVAL == 5
MAX_POLLING_TIME == 600
\* config.py reads MAX_CONCURRENT_REQUESTS from the environment (default 20);
\* the model runs with a small cap so that the cap binds.
MAX_CONCURRENT_REQUESTS == 1

\* ERROR_MESSAGES of config.py and the literal messages of video_generator.py,
\* each named by its key or an ASCII rendering of its text.
ERR_invalid_api_key == "invalid_api_key"
ERR_generation_failed == "generation_failed"
ERR_network_error == "network_error"
ERR_timeout_error == "timeout_error"
ERR_no_task_id == "no taskId in response"
ERR_rate_limit == "API rate limit exceeded"
ERR_api == "API error"
ERR_status_failed == "status check failed"
ERR_status_http == "status check failed: HTTP"
ERR_client == "aiohttp.ClientError"
ERR_not_callable == "'NoneType' object is not callable"
ERR_no_session == "'NoneType' object has no attribute 'post'"
UNKNOWN_ERROR == "Unknown error"

\* ------------------------------------------------------------------ bounds
\* Longest prompt list given to batch_generate.
MaxPrompts == 2
\* Most polls of one task the remote answers at once with a non-terminal status.
MaxFastPolls == 2
\* Longest list of results given to get_statistics.
MaxResults == 2
\* Latest completion time (in seconds) of a result given to get_statistics.
MaxTime == 2
\* Duration of a slow status request (time.time() advances while it is
\* awaited): two slow requests and their sleeps bring the clock to
\* MAX_POLLING_TIME exactly, a third takes it beyond.
SlowPoll == 295

\* ------------------------------------------------------------------ values
None == "<None>"
Now == "<now>"
\* A callable given as progress_callback, which returns normally.
Callable == "<Callable>"
\* self.session once __aenter__ has run; it is None before.
ClientSession == "<ClientSession>"
\* self.session once __aexit__ has closed it.
ClosedSession == "<closed ClientSession>"
\* datetime.now().isoformat()
NowIso == "<now.isoformat()>"

PromptNames == <<"p1", "p2", "p3", "p4", "p5", "p6">>
TaskNames == <<"task_1", "task_2", "task_3", "task_4", "task_5", "task_6">>
FailedNames == <<"failed_0", "failed_1", "failed_2", "failed_3", "failed_4", "failed_5">>

Jobs == 1..MaxPrompts

\* Python truthiness of an Optional[str].
Truthy(s) == s # None /\ s # ""

\* dict.get(key, default) on a decoded JSON object d: d.keys are the keys present.
DictGet(d, key, default) == IF key \in d.keys THEN d[key] ELSE default

\* @dataclass VideoGenerationResult, with its field defaults.
VideoGenerationResult(task_id, prompt, status) ==
    [task_id |-> task_id, prompt |-> prompt, status |-> status,
     video_url |-> None, error_message |-> None,
     created_at |-> None, completed_at |-> None]

NoResult == VideoGenerationResult(None, None, None)

\* ------------------------------------------------- outcomes of a coroutine
\* What one step of a coroutine does: return a result, raise Exception(msg),
\* or (generate_video only) sleep `delay` and go to the next attempt.
Return(r) == [kind |-> "return", result |-> r, msg |-> None, delay |-> 0]
Raise(m) == [kind |-> "raise", result |-> NoResult, msg |-> m, delay |-> 0]
Retry(d) == [kind |-> "retry", result |-> NoResult, msg |-> None, delay |-> d]

\* ------------------------------------------------------- remote: submission
\* What the remote does with one POST: net is an aiohttp.ClientError instead
\* of a response; otherwise the HTTP status, and for 200 the envelope's code
\* and data.taskId (None when the key is missing).
SubmitResponse(net, status, code, taskId) ==
    [net |-> net, status |-> status, code |-> code, taskId |-> taskId]

SubmitResponses(i) ==
    {SubmitResponse(TRUE, 0, 0, None)}
    \cup {SubmitResponse(FALSE, s, 0, None) : s \in {401, 429, 500}}
    \cup {SubmitResponse(FALSE, 200, 500, None)}
    \cup {SubmitResponse(FALSE, 200, 200, t) : t \in {None, "", TaskNames[i]}}

\* The retry loop with the same delay before every retry after HTTP 429.
GenerateVideoAttemptConstantDelay(prompt, attempt, resp) ==
    IF resp.net
    THEN IF attempt < MAX_RETRIES - 1
         THEN Retry(RETRY_DELAY)
         ELSE Raise(ERR_network_error)
    ELSE IF resp.status = 200
    THEN IF resp.code = 200
         THEN IF Truthy(resp.taskId)
              THEN Return([VideoGenerationResult(resp.taskId, prompt, "pending")
                             EXCEPT !.created_at = Now])
              ELSE Raise(ERR_no_task_id)
         ELSE Raise(ERR_api)
    ELSE IF resp.status = 401
    THEN Raise(ERR_invalid_api_key)
    ELSE IF resp.status = 429
    THEN IF attempt < MAX_RETRIES - 1
         THEN Retry(RETRY_DELAY)
         ELSE Raise(ERR_rate_limit)
    ELSE Raise(ERR_api)

\* The retry loop that retries every failed attempt, whatever the failure.
GenerateVideoAttemptRetryingAll(prompt, attempt, resp) ==
    IF ~resp.net /\ resp.status = 200 /\ resp.code = 200 /\ Truthy(resp.taskId)
    THEN Return([VideoGenerationResult(resp.taskId, prompt, "pending")
                   EXCEPT !.created_at = Now])
    ELSE IF attempt < MAX_RETRIES - 1
    THEN Retry(IF resp.net THEN RETRY_DELAY ELSE RETRY_DELAY * (attempt + 1))
    ELSE Raise(IF resp.net THEN ERR_network_error
               ELSE IF resp.status = 429 THEN ERR_rate_limit
               ELSE IF resp.status = 401 THEN ERR_invalid_api_key
               ELSE IF resp.status = 200 /\ resp.code = 200 THEN ERR_no_task_id
               ELSE ERR_api)

\* The retry loop whose test for a remaining attempt is off by one.
GenerateVideoAttemptOneRetryMore(prompt, attempt, resp) ==
    IF resp.net
    THEN IF attempt < MAX_RETRIES
         THEN Retry(RETRY_DELAY)
         ELSE Raise(ERR_network_error)
    ELSE IF resp.status = 200
    THEN IF resp.code = 200
         THEN IF Truthy(resp.taskId)
              THEN Return([VideoGenerationResult(resp.taskId, prompt, "pending")
                             EXCEPT !.created_at = Now])
              ELSE Raise(ERR_no_task_id)
         ELSE Raise(ERR_api)
    ELSE IF resp.status = 401
    THEN Raise(ERR_invalid_api_key)
    ELSE IF resp.status = 429
    THEN IF attempt < MAX_RETRIES
         THEN Retry(RETRY_DELAY * (attempt + 1))
         ELSE Raise(ERR_rate_limit)
    ELSE Raise(ERR_api)

\* The retry loop that sleeps and retries after every network error, the last
\* attempt's included.
GenerateVideoAttemptNetworkAlwaysRetried(prompt, attempt, resp) ==
    IF resp.net
    THEN Retry(RETRY_DELAY)
    ELSE IF resp.status = 200
    THEN IF resp.code = 200
         THEN IF Truthy(resp.taskId)
              THEN Return([VideoGenerationResult(resp.taskId, prompt, "pending")
                             EXCEPT !.created_at = Now])
              ELSE Raise(ERR_no_task_id)
         ELSE Raise(ERR_api)
    ELSE IF resp.status = 401
    THEN Raise(ERR_invalid_api_key)
    ELSE IF resp.status = 429
    THEN IF attempt < MAX_RETRIES - 1
         THEN Retry(RETRY_DELAY * (attempt + 1))
         ELSE Raise(ERR_rate_limit)
    ELSE Raise(ERR_api)

\* One iteration of the retry loop of generate_video, `attempt` in
\* range(MAX_RETRIES), on the response resp.
GenerateVideoAttempt(prompt, attempt, resp) ==
    IF resp.net
    THEN \* except aiohttp.ClientError
         IF attempt < MAX_RETRIES - 1
         THEN Retry(RETRY_DELAY)
         ELSE Raise(ERR_network_error)
    ELSE IF resp.status = 200
    THEN IF resp.code = 200
         THEN IF Truthy(resp.taskId)
              THEN Return([VideoGenerationResult(resp.taskId, prompt, "pending")
                             EXCEPT !.created_at = Now])
              ELSE Raise(ERR_no_task_id)
         ELSE Raise(ERR_api)
    ELSE IF resp.status = 401
    THEN Raise(ERR_invalid_api_key)
    ELSE IF resp.status = 429
    THEN IF attempt < MAX_RETRIES - 1
         THEN Retry(RETRY_DELAY * (attempt + 1))
         ELSE Raise(ERR_rate_limit)
    ELSE Raise(ERR_api)

\* What one pass of generate_video's `for attempt in range(MAX_RETRIES)` did:
\* whether it made a POST, and how it ended; the loop falls through to the
\* final raise when the range is exhausted.
Pass(posted, out) == [posted |-> posted, out |-> out]

\* With self.session None, `self.session.post` raises AttributeError, which
\* is not an aiohttp.ClientError and leaves generate_video.
GenerateVideoStep(prompt, attempt, resp, session) ==
    IF attempt < MAX_RETRIES
    THEN IF session = None
         THEN Pass(FALSE, Raise(ERR_no_session))
         ELSE Pass(TRUE, GenerateVideoAttempt(prompt, attempt, resp))
    ELSE Pass(FALSE, Raise(ERR_generation_failed))

\* ----------------------------------------------------------- remote: status
\* The decoded `data` object of a status response: keys are the keys present;
\* paramJson is the JSON text (parses: json.loads succeeds; hasPrompt/prompt:
\* its "prompt" member); resultUrls is data.response.resultUrls.
ParamJson(parses, hasPrompt, prompt) ==
    [parses |-> parses, hasPrompt |-> hasPrompt, prompt |-> prompt]

StatusData(keys, flag, param, urls, err) ==
    [keys |-> keys, successFlag |-> flag, paramJson |-> param,
     resultUrls |-> urls, errorMessage |-> err]

StatusResponse(net, status, code, data) ==
    [net |-> net, status |-> status, code |-> code, data |-> data]

NoData == StatusData({}, 0, ParamJson(TRUE, FALSE, ""), <<>>, None)

\* The status payloads the remote may answer with for a task created from
\* `prompt`: every branch of check_status is reached by one of them.
StatusPayloads(prompt) ==
    LET echo == ParamJson(TRUE, TRUE, prompt)
        all == {"successFlag", "paramJson", "response", "resultUrls", "errorMessage"}
    IN  { NoData,
          StatusData({"successFlag", "paramJson"}, 0, echo, <<>>, None),
          StatusData({"successFlag", "paramJson", "response", "resultUrls"}, 1, echo,
                     <<"url_a", "url_b">>, None),
          StatusData({"successFlag", "paramJson", "response", "resultUrls"}, 1, echo,
                     <<>>, None),
          StatusData({"successFlag", "paramJson"}, 1, echo, <<>>, None),
          StatusData({"successFlag", "response", "resultUrls"}, 1,
                     ParamJson(FALSE, FALSE, ""), <<"url_a">>, None),
          StatusData(all, 2, echo, <<>>, "bad prompt"),
          StatusData({"successFlag", "paramJson"}, 3, echo, <<>>, None),
          StatusData({"successFlag", "paramJson", "errorMessage"}, 2, echo, <<>>, None),
          StatusData(all, 4, echo, <<>>, "bad prompt") }

StatusResponses(prompt) ==
    {StatusResponse(TRUE, 0, 0, NoData),
     StatusResponse(FALSE, 500, 0, NoData),
     StatusResponse(FALSE, 200, 500, NoData)}
    \cup {StatusResponse(FALSE, 200, 200, d) : d \in StatusPayloads(prompt)}

\* The prompt check_status reads from data.paramJson (default "{}").
ParamPrompt(data) ==
    LET p == DictGet(data, "paramJson", ParamJson(TRUE, FALSE, ""))
    IN  IF p.parses /\ p.hasPrompt THEN p.prompt ELSE ""

\* data.get("response", {}).get("resultUrls", [])
ResultUrls(data) ==
    IF "response" \in data.keys THEN DictGet(data, "resultUrls", <<>>) ELSE <<>>

\* The status from the flag with success-flag 0 named processing.
FlagStatusProcessing(success_flag) ==
    IF success_flag = 0 THEN "processing"
    ELSE IF success_flag = 1 THEN "completed" ELSE "failed"

\* The initial status check_status gives the result, from the success flag.
FlagStatus(success_flag) ==
    IF success_flag = 0 THEN "pending"
    ELSE IF success_flag = 1 THEN "completed" ELSE "failed"

\* check_status that takes the last of the result URLs.
StatusResultLastUrl(task_id, data) ==
    LET success_flag == DictGet(data, "successFlag", 0)
        video_result == VideoGenerationResult(task_id, ParamPrompt(data),
                                              FlagStatus(success_flag))
        result_urls == ResultUrls(data)
    IN  IF success_flag = 1
        THEN IF Len(result_urls) > 0
             THEN [video_result EXCEPT !.video_url = result_urls[Len(result_urls)],
                                       !.completed_at = Now,
                                       !.status = "completed"]
             ELSE video_result
        ELSE IF success_flag \in {2, 3}
        THEN [video_result EXCEPT
                 !.error_message = DictGet(data, "errorMessage", UNKNOWN_ERROR),
                 !.status = "failed"]
        ELSE video_result

\* The VideoGenerationResult check_status builds from `data`.
StatusResult(task_id, data) ==
    LET success_flag == DictGet(data, "successFlag", 0)
        video_result == VideoGenerationResult(task_id, ParamPrompt(data),
                                              FlagStatus(success_flag))
        result_urls == ResultUrls(data)
    IN  IF success_flag = 1
        THEN IF Len(result_urls) > 0
             THEN [video_result EXCEPT !.video_url = result_urls[1],
                                       !.completed_at = Now,
                                       !.status = "completed"]
             ELSE video_result
        ELSE IF success_flag \in {2, 3}
        THEN [video_result EXCEPT
                 !.error_message = DictGet(data, "errorMessage", UNKNOWN_ERROR),
                 !.status = "failed"]
        ELSE video_result

\* check_status: one GET, no retry; every exception is logged and re-raised.
CheckStatus(task_id, resp) ==
    IF resp.net
    THEN Raise(ERR_client)
    ELSE IF resp.status = 200
    THEN IF resp.code = 200
         THEN Return(StatusResult(task_id, resp.data))
         ELSE Raise(ERR_status_failed)
    ELSE Raise(ERR_status_http)

\* wait_for_completion's test for leaving the loop.
Terminal(status) == status \in {"completed", "failed"}

\* ------------------------------------------------------ wait_for_completion
Sleep(r, d) == [kind |-> "sleep", result |-> r, msg |-> None, delay |-> d]

\* `if progress_callback: progress_callback(result)` in wait_for_completion.
\* callback is wait_for_completion's argument: None, or the lambda of
\* batch_generate, which calls batch_generate's own progress_callback
\* (batch_callback: None or Callable).
CallbackRaises(callback, batch_callback) ==
    callback = "lambda" /\ batch_callback = None

\* What one iteration of the loop did: whether it issued the status request,
\* whether it called the callback on the snapshot, and how it ended.
Iteration(polled, called, out) == [polled |-> polled, called |-> called, out |-> out]

\* `if progress_callback:` on the result of a status request that returned.
CallbackCalled(checked, callback) == checked.kind = "return" /\ callback # None

\* What follows the status request in an iteration: the callback, the return
\* of a terminal result, or the sleep.
AfterCheck(checked, callback, batch_callback) ==
    IF checked.kind = "raise"
    THEN checked
    ELSE IF CallbackRaises(callback, batch_callback)
    THEN Raise(ERR_not_callable)
    ELSE IF Terminal(checked.result.status)
    THEN checked
    ELSE Sleep(checked.result, POLLING_INTERVAL)

\* The loop with the timeout tested after the status request instead of before.
WaitIterationTimeoutAfterPoll(task_id, elapsed, resp, callback, batch_callback) ==
    LET checked == CheckStatus(task_id, resp)
        out == AfterCheck(checked, callback, batch_callback)
    IN  IF out.kind = "sleep" /\ elapsed > MAX_POLLING_TIME
        THEN Iteration(TRUE, CallbackCalled(checked, callback), Raise(ERR_timeout_error))
        ELSE Iteration(TRUE, CallbackCalled(checked, callback), out)

\* The loop that leaves only on status completed.
WaitIterationCompletedOnly(task_id, elapsed, resp, callback, batch_callback) ==
    IF elapsed > MAX_POLLING_TIME
    THEN Iteration(FALSE, FALSE, Raise(ERR_timeout_error))
    ELSE LET checked == CheckStatus(task_id, resp)
             out == AfterCheck(checked, callback, batch_callback)
         IN  IF out.kind = "return" /\ out.result.status # "completed"
             THEN Iteration(TRUE, CallbackCalled(checked, callback),
                            Sleep(checked.result, POLLING_INTERVAL))
             ELSE Iteration(TRUE, CallbackCalled(checked, callback), out)

\* The loop that takes a failed status request as one more non-terminal poll.
WaitIterationAbsorbingPollErrors(task_id, elapsed, resp, callback, batch_callback) ==
    IF elapsed > MAX_POLLING_TIME
    THEN Iteration(FALSE, FALSE, Raise(ERR_timeout_error))
    ELSE LET checked == CheckStatus(task_id, resp)
         IN  IF checked.kind = "raise"
             THEN Iteration(TRUE, FALSE, Sleep(NoResult, POLLING_INTERVAL))
             ELSE Iteration(TRUE, CallbackCalled(checked, callback),
                            AfterCheck(checked, callback, batch_callback))

\* The loop that returns a terminal result before the callback is called.
WaitIterationReturningBeforeCallback(task_id, elapsed, resp, callback, batch_callback) ==
    IF elapsed > MAX_POLLING_TIME
    THEN Iteration(FALSE, FALSE, Raise(ERR_timeout_error))
    ELSE LET checked == CheckStatus(task_id, resp)
         IN  IF checked.kind = "return" /\ Terminal(checked.result.status)
             THEN Iteration(TRUE, FALSE, checked)
             ELSE Iteration(TRUE, CallbackCalled(checked, callback),
                            AfterCheck(checked, callback, batch_callback))

\* One iteration of the `while True` of wait_for_completion, entered with
\* time.time() - start_time = elapsed; resp is the remote's answer to the
\* status request the iteration makes (none is made on a timeout).
WaitIteration(task_id, elapsed, resp, callback, batch_callback) ==
    IF elapsed > MAX_POLLING_TIME
    THEN Iteration(FALSE, FALSE, Raise(ERR_timeout_error))
    ELSE LET checked == CheckStatus(task_id, resp)
         IN  Iteration(TRUE, CallbackCalled(checked, callback),
                       AfterCheck(checked, callback, batch_callback))

\* ----------------------------------------------------------- get_statistics
\* In the results given to get_statistics a datetime is the one-element
\* sequence of its seconds, and a timestamp that is None the empty sequence.
At(t) == <<t>>
NoTime == <<>>

\* A number get_statistics computes by true division: num / den.
Ratio(num, den) == [num |-> num, den |-> den]

\* sum(1 for r in results if r.status in statuses)
CountStatus(results, statuses) ==
    Cardinality({k \in 1..Len(results) : results[k].status \in statuses})

\* completion_times that takes every result with both timestamps.
CompletionTimesAnyStatus(results) ==
    LET RECURSIVE Times(_)
        Times(k) ==
            IF k > Len(results) THEN <<>>
            ELSE LET r == results[k]
                 IN  IF r.created_at # NoTime /\ r.completed_at # NoTime
                     THEN <<r.completed_at[1] - r.created_at[1]>> \o Times(k + 1)
                     ELSE Times(k + 1)
    IN  Times(1)

\* completion_times: the durations, in list order, of the completed results
\* that have both timestamps.
CompletionTimes(results) ==
    LET RECURSIVE Times(_)
        Times(k) ==
            IF k > Len(results) THEN <<>>
            ELSE LET r == results[k]
                 IN  IF /\ r.status = "completed"
                        /\ r.created_at # NoTime
                        /\ r.completed_at # NoTime
                     THEN <<r.completed_at[1] - r.created_at[1]>> \o Times(k + 1)
                     ELSE Times(k + 1)
    IN  Times(1)

\* sum(completion_times)
RECURSIVE Sum(_)
Sum(seq) == IF seq = <<>> THEN 0 ELSE Head(seq) + Sum(Tail(seq))

\* success_rate computed with floor division.
SuccessRateFloorDivision(completed, total) ==
    IF total > 0 THEN Ratio((completed \div total) * 100, 1) ELSE Ratio(0, 1)

\* (completed / total * 100) if total > 0 else 0
SuccessRate(completed, total) ==
    IF total > 0 THEN Ratio(completed * 100, total) ELSE Ratio(0, 1)

\* get_statistics that counts only status pending as pending.
get_statistics_pending_only(results) ==
    LET total == Len(results)
        completed == CountStatus(results, {"completed"})
        failed == CountStatus(results, {"failed"})
        pending == CountStatus(results, {"pending"})
        completion_times == CompletionTimes(results)
        avg_time == IF completion_times # <<>>
                    THEN Ratio(Sum(completion_times), Len(completion_times))
                    ELSE Ratio(0, 1)
    IN  [total |-> total, completed |-> completed, failed |-> failed,
         pending |-> pending, success_rate |-> SuccessRate(completed, total),
         average_time |-> avg_time]

get_statistics(results) ==
    LET total == Len(results)
        completed == CountStatus(results, {"completed"})
        failed == CountStatus(results, {"failed"})
        pending == CountStatus(results, {"pending", "processing"})
        completion_times == CompletionTimes(results)
        avg_time == IF completion_times # <<>>
                    THEN Ratio(Sum(completion_times), Len(completion_times))
                    ELSE Ratio(0, 1)
    IN  [total |-> total, completed |-> completed, failed |-> failed,
         pending |-> pending, success_rate |-> SuccessRate(completed, total),
         average_time |-> avg_time]

\* The results get_statistics is given: any status string (the code produces
\* pending, completed and failed; processing is counted; any other is not),
\* with or without each timestamp.
StatStatuses == {"pending", "processing", "completed", "failed", "cancelled"}

StatResults ==
    {[VideoGenerationResult("task", "p", status)
        EXCEPT !.created_at = created_at, !.completed_at = completed_at] :
        status \in StatStatuses,
        created_at \in {NoTime, At(0)},
        completed_at \in {NoTime} \cup {At(t) : t \in 1..MaxTime}}

ResultLists == UNION {[1..n -> StatResults] : n \in 0..MaxResults}

\* ------------------------------------------------------------------- state
VARIABLES
    prompts,            \* batch_generate's argument: the list of prompts
    progress_callback,  \* batch_generate's argument: None or Callable
    session,            \* self.session: None, or the ClientSession of __aenter__
    semaphore,          \* asyncio.Semaphore: the free slots
    pc,                 \* per job: "waiting" (for a slot), "submit", "wait", "done"
    attempt,            \* per job: generate_video's loop variable
    submitted,          \* per job: the result generate_video returned
    elapsed,            \* per job: time.time() - start_time of wait_for_completion
    results,            \* per job: what generate_with_semaphore returned
    batch_pc,           \* "running", or "returned" once gather has returned
    returned,           \* the list batch_generate returned
    \* what the job of a traced run (Traced) has done so far, kept after it is done:
    post_log,           \* per job: the remote's response to each POST
    retry_sleeps,       \* per job: the asyncio.sleep delays of generate_video
    poll_log,           \* per job: each status request: the elapsed time it was issued
                        \* at, the response, and what check_status made of it
    polls,              \* per job: the status requests wait_for_completion issued
    poll_sleeps,        \* per job: the asyncio.sleep delays of wait_for_completion
    callback_log,       \* per job: the results wait_for_completion called its callback with
    app_pc,             \* app.py: "start", then inside generate_videos ("submit", "wait")
                        \* or check_generation_status ("check"), leaving the `async
                        \* with` ("exit", or "raised" by an exception), and "idle"
    cur,                \* app.py: the position of the running for loop (1-based)
    generation_tasks,   \* st.session_state.generation_tasks
    generation_results, \* st.session_state.generation_results
    audit,              \* of the current VideoGenerator: __aenter__ and __aexit__ calls
                        \* made, self.session at the latest request, and the task of
                        \* the latest request of check_generation_status with the
                        \* status its record had
    stat_results,       \* get_statistics's argument: a list of results
    statistics          \* the dicts get_statistics has returned

vars == <<prompts, progress_callback, session, semaphore, pc, attempt, submitted,
          elapsed, results, batch_pc, returned, post_log, retry_sleeps, poll_log,
          polls, poll_sleeps, callback_log, stat_results, statistics, app_pc, cur,
          generation_tasks, generation_results, audit>>

app == <<app_pc, cur, generation_tasks, generation_results, audit>>

history == <<post_log, retry_sleeps, poll_log, polls, poll_sleeps, callback_log>>

N == Len(prompts)

\* The history of a job is recorded in the runs of one prompt.
Traced == N = 1

\* batch_generate is entered with a list of prompts, with or without a
\* callback, on a generator whose session is open (inside `async with`) or not.
BatchInit ==
    /\ \E n \in 0..MaxPrompts : prompts = SubSeq(PromptNames, 1, n)
    /\ progress_callback \in {Callable, None}
    /\ session \in {ClientSession, None}
    /\ semaphore = MAX_CONCURRENT_REQUESTS
    /\ pc = [i \in Jobs |-> "waiting"]
    /\ attempt = [i \in Jobs |-> 0]
    /\ submitted = [i \in Jobs |-> NoResult]
    /\ elapsed = [i \in Jobs |-> 0]
    /\ results = [i \in Jobs |-> NoResult]
    /\ batch_pc = "running"
    /\ returned = <<>>
    /\ post_log = [i \in Jobs |-> <<>>]
    /\ retry_sleeps = [i \in Jobs |-> <<>>]
    /\ poll_log = [i \in Jobs |-> <<>>]
    /\ polls = [i \in Jobs |-> 0]
    /\ poll_sleeps = [i \in Jobs |-> <<>>]
    /\ callback_log = [i \in Jobs |-> <<>>]

\* A VideoGenerator just constructed, before any request.
NoAudit ==
    [opens |-> 0, closes |-> 0, request_session |-> None,
     poll_task |-> None, poll_record |-> None]

\* The session state of a freshly started app.
AppStart ==
    /\ app_pc = "start"
    /\ cur = 0
    /\ generation_tasks = <<>>
    /\ generation_results = <<>>
    /\ audit = NoAudit

Init ==
    /\ BatchInit
    /\ stat_results = <<>>
    /\ statistics = <<>>
    /\ AppStart

\* The except clause with one placeholder for every index.
FailedResultWithoutIndex(i, prompt, msg) ==
    [VideoGenerationResult(FailedNames[1], prompt, "failed") EXCEPT !.error_message = msg]

\* `except Exception as e` of generate_with_semaphore, for index i - 1.
FailedResult(i, prompt, msg) ==
    [VideoGenerationResult(FailedNames[i], prompt, "failed") EXCEPT !.error_message = msg]

\* A return that keeps the slot when the job ended in an exception.
FinishKeepingSlotOnFailure(i, r) ==
    /\ results' = [results EXCEPT ![i] = r]
    /\ pc' = [pc EXCEPT ![i] = "done"]
    /\ semaphore' = IF r.task_id = FailedNames[i] THEN semaphore ELSE semaphore + 1
    /\ attempt' = [attempt EXCEPT ![i] = 0]
    /\ submitted' = [submitted EXCEPT ![i] = NoResult]
    /\ elapsed' = [elapsed EXCEPT ![i] = 0]

\* generate_with_semaphore returns r: the slot is released on leaving
\* `async with semaphore`, and the coroutine's locals are gone.
Finish(i, r) ==
    /\ results' = [results EXCEPT ![i] = r]
    /\ pc' = [pc EXCEPT ![i] = "done"]
    /\ semaphore' = semaphore + 1
    /\ attempt' = [attempt EXCEPT ![i] = 0]
    /\ submitted' = [submitted EXCEPT ![i] = NoResult]
    /\ elapsed' = [elapsed EXCEPT ![i] = 0]

\* Acquire without the wait for a free slot.
AcquireWithoutWaiting(i) ==
    /\ batch_pc = "running"
    /\ i \in 1..N
    /\ pc[i] = "waiting"
    /\ semaphore' = semaphore - 1
    /\ pc' = [pc EXCEPT ![i] = "submit"]
    /\ UNCHANGED <<session, stat_results, statistics, app>>
    /\ UNCHANGED <<prompts, progress_callback, attempt, submitted, elapsed, results,
                   batch_pc, returned, history>>

\* `async with semaphore`: a job enters when a slot is free.
Acquire(i) ==
    /\ batch_pc = "running"
    /\ i \in 1..N
    /\ pc[i] = "waiting"
    /\ semaphore > 0
    /\ semaphore' = semaphore - 1
    /\ pc' = [pc EXCEPT ![i] = "submit"]
    /\ UNCHANGED <<session, stat_results, statistics, app>>
    /\ UNCHANGED <<prompts, progress_callback, attempt, submitted, elapsed, results,
                   batch_pc, returned, history>>

\* One attempt of generate_video for job i: the POST, the remote's response,
\* and what the loop does with it (including the sleep before a retry).
Post(i) ==
    /\ i \in 1..N
    /\ pc[i] = "submit"
    /\ \E resp \in SubmitResponses(i) :
         LET step == GenerateVideoStep(prompts[i], attempt[i], resp, session)
             out == step.out
         IN  /\ post_log' = [post_log EXCEPT ![i] =
                               IF Traced /\ step.posted THEN Append(@, resp) ELSE @]
             /\ CASE out.kind = "retry" ->
                       /\ attempt' = [attempt EXCEPT ![i] = @ + 1]
                       /\ retry_sleeps' = [retry_sleeps EXCEPT ![i] =
                                          IF Traced THEN Append(@, out.delay) ELSE @]
                       /\ UNCHANGED <<pc, semaphore, submitted, elapsed, results>>
                  [] out.kind = "return" ->
                       /\ pc' = [pc EXCEPT ![i] = "wait"]
                       /\ submitted' = [submitted EXCEPT ![i] = out.result]
                       /\ attempt' = [attempt EXCEPT ![i] = 0]
                       /\ UNCHANGED <<semaphore, elapsed, results, retry_sleeps>>
                  [] out.kind = "raise" ->
                       /\ Finish(i, FailedResult(i, prompts[i], out.msg))
                       /\ UNCHANGED retry_sleeps
    /\ UNCHANGED <<session, stat_results, statistics, app>>
    /\ UNCHANGED <<prompts, progress_callback, batch_pc, returned, poll_log, polls,
                   poll_sleeps, callback_log>>

\* A job that is submitted again when its polling ends in an exception.
PollResubmittingOnFailure(i) ==
    /\ i \in 1..N
    /\ pc[i] = "wait"
    /\ \E resp \in StatusResponses(prompts[i]) :
         LET iteration == WaitIteration(submitted[i].task_id, elapsed[i], resp,
                                        "lambda", progress_callback)
             out == iteration.out
             polled == iteration.polled
             checked == CheckStatus(submitted[i].task_id, resp)
         IN  /\ poll_log' = [poll_log EXCEPT ![i] =
                               IF Traced /\ polled
                               THEN Append(@, [at |-> elapsed[i], resp |-> resp,
                                                checked |-> checked])
                               ELSE @]
             /\ callback_log' = [callback_log EXCEPT ![i] =
                                   IF Traced /\ iteration.called
                                   THEN Append(@, checked.result) ELSE @]
             /\ polls' = [polls EXCEPT ![i] =
                            IF out.kind = "sleep" \/ Traced
                            THEN (IF polled THEN @ + 1 ELSE @) ELSE 0]
             /\ CASE out.kind = "sleep" ->
                       /\ \E latency \in {0, SlowPoll} :
                            /\ latency = 0 => polls[i] < MaxFastPolls
                            /\ elapsed' = [elapsed EXCEPT ![i] = @ + latency + out.delay]
                       /\ poll_sleeps' = [poll_sleeps EXCEPT ![i] =
                                            IF Traced THEN Append(@, out.delay) ELSE @]
                       /\ UNCHANGED <<pc, semaphore, attempt, submitted, results>>
                  [] out.kind = "return" ->
                       /\ Finish(i, out.result)
                       /\ UNCHANGED poll_sleeps
                  [] out.kind = "raise" ->
                       /\ pc' = [pc EXCEPT ![i] = "submit"]
                       /\ attempt' = [attempt EXCEPT ![i] = 0]
                       /\ submitted' = [submitted EXCEPT ![i] = NoResult]
                       /\ elapsed' = [elapsed EXCEPT ![i] = 0]
                       /\ UNCHANGED <<semaphore, results, poll_sleeps>>
    /\ UNCHANGED <<session, stat_results, statistics, app>>
    /\ UNCHANGED <<prompts, progress_callback, batch_pc, returned, post_log,
                   retry_sleeps>>

\* One iteration of wait_for_completion for job i: the timeout test, the
\* status request (which takes `latency`), the callback, the return or the sleep.
Poll(i) ==
    /\ i \in 1..N
    /\ pc[i] = "wait"
    /\ \E resp \in StatusResponses(prompts[i]) :
         LET iteration == WaitIteration(submitted[i].task_id, elapsed[i], resp,
                                        "lambda", progress_callback)
             out == iteration.out
             polled == iteration.polled
             checked == CheckStatus(submitted[i].task_id, resp)
         IN  /\ poll_log' = [poll_log EXCEPT ![i] =
                               IF Traced /\ polled
                               THEN Append(@, [at |-> elapsed[i], resp |-> resp,
                                                checked |-> checked])
                               ELSE @]
             /\ callback_log' = [callback_log EXCEPT ![i] =
                                   IF Traced /\ iteration.called
                                   THEN Append(@, checked.result) ELSE @]
             /\ polls' = [polls EXCEPT ![i] =
                            IF out.kind = "sleep" \/ Traced
                            THEN (IF polled THEN @ + 1 ELSE @) ELSE 0]
             /\ CASE out.kind = "sleep" ->
                       /\ \E latency \in {0, SlowPoll} :
                            /\ latency = 0 => polls[i] < MaxFastPolls
                            /\ elapsed' = [elapsed EXCEPT ![i] = @ + latency + out.delay]
                       /\ poll_sleeps' = [poll_sleeps EXCEPT ![i] =
                                            IF Traced THEN Append(@, out.delay) ELSE @]
                       /\ UNCHANGED <<pc, semaphore, attempt, submitted, results>>
                  [] out.kind = "return" ->
                       /\ Finish(i, out.result)
                       /\ UNCHANGED poll_sleeps
                  [] out.kind = "raise" ->
                       /\ Finish(i, FailedResult(i, prompts[i], out.msg))
                       /\ UNCHANGED poll_sleeps
    /\ UNCHANGED <<session, stat_results, statistics, app>>
    /\ UNCHANGED <<prompts, progress_callback, batch_pc, returned, post_log,
                   retry_sleeps>>

\* A gather that drops the jobs that ended in an exception.
GatherDroppingFailures ==
    /\ batch_pc = "running"
    /\ \A i \in 1..N : pc[i] = "done"
    /\ batch_pc' = "returned"
    /\ returned' = SelectSeq([i \in 1..N |-> results[i]],
                             LAMBDA r : r.task_id \notin {FailedNames[i] : i \in 1..N})
    /\ UNCHANGED <<session, stat_results, statistics, app>>
    /\ UNCHANGED <<prompts, progress_callback, semaphore, pc, attempt, submitted,
                   elapsed, results, history>>

\* A gather that returns the results in the reverse of the order of the tasks.
GatherReversed ==
    /\ batch_pc = "running"
    /\ \A i \in 1..N : pc[i] = "done"
    /\ batch_pc' = "returned"
    /\ returned' = [i \in 1..N |-> results[N + 1 - i]]
    /\ UNCHANGED <<session, stat_results, statistics, app>>
    /\ UNCHANGED <<prompts, progress_callback, semaphore, pc, attempt, submitted,
                   elapsed, results, history>>

\* asyncio.gather returns once every job is done; batch_generate returns the list.
Gather ==
    /\ batch_pc = "running"
    /\ \A i \in 1..N : pc[i] = "done"
    /\ batch_pc' = "returned"
    /\ returned' = [i \in 1..N |-> results[i]]
    /\ UNCHANGED <<session, stat_results, statistics, app>>
    /\ UNCHANGED <<prompts, progress_callback, semaphore, pc, attempt, submitted,
                   elapsed, results, history>>

Job(i) == Acquire(i) \/ Post(i) \/ Poll(i)

Next == (\E i \in Jobs : Job(i)) \/ Gather

Spec == Init /\ [][Next]_vars

\* The runs of a single prompt, in which the job's history is recorded.
JobInit == Init /\ Len(prompts) = 1

JobSpec == JobInit /\ [][Next]_vars

\* The event loop runs every task that can run, and every remote call returns.
FairSpec == Spec /\ (\A i \in Jobs : WF_vars(Job(i))) /\ WF_vars(Gather)

\* get_statistics is called once on a list of results.
StatsInit ==
    /\ BatchInit
    /\ prompts = <<>>
    /\ progress_callback = None
    /\ session = None
    /\ stat_results \in ResultLists
    /\ statistics = <<>>
    /\ AppStart

GetStatistics ==
    /\ statistics = <<>>
    /\ statistics' = <<get_statistics(stat_results)>>
    /\ UNCHANGED <<prompts, progress_callback, session, semaphore, pc, attempt,
                   submitted, elapsed, results, batch_pc, returned, history,
                   stat_results, app>>

StatsNext == GetStatistics

StatsSpec == StatsInit /\ [][StatsNext]_vars

\* ------------------------------------------------------------------ app.py
\* What the app's two coroutines leave alone: the state of batch_generate and
\* of get_statistics.
batch_only == <<progress_callback, semaphore, pc, results, batch_pc, returned,
                post_log, retry_sleeps, poll_log, poll_sleeps, callback_log,
                stat_results, statistics>>

\* `x or ""`
OrEmpty(x) == IF Truthy(x) THEN x ELSE ""

\* `t.isoformat() if t else ""`
IsoOrEmpty(t) == IF t # None THEN NowIso ELSE ""

\* The entry generate_videos appends to generation_tasks.
TaskEntry(task_id, prompt) ==
    [task_id |-> task_id, prompt |-> prompt, status |-> "pending", created_at |-> NowIso]

\* result_data, with the created_at its function gives it.
ResultData(r, created_at) ==
    [task_id |-> r.task_id, prompt |-> r.prompt, status |-> r.status,
     video_url |-> OrEmpty(r.video_url), error_message |-> OrEmpty(r.error_message),
     created_at |-> created_at, completed_at |-> IsoOrEmpty(r.completed_at)]

\* The records of generation_results for task_id.
RecordsOf(task_id) ==
    {k \in 1..Len(generation_results) : generation_results[k].task_id = task_id}

\* The skip test that passes over completed tasks only.
SkippedOnlyCompleted(task_id) ==
    \E k \in RecordsOf(task_id) : generation_results[k].status = "completed"

\* check_generation_status's test for a task that is already finished.
Skipped(task_id) ==
    \E k \in RecordsOf(task_id) : Terminal(generation_results[k].status)

\* check_generation_status replaces the first record of the task, or appends.
Updated(result_data) ==
    LET existing == RecordsOf(result_data.task_id)
    IN  IF existing # {}
        THEN [generation_results EXCEPT
                 ![CHOOSE k \in existing : \A j \in existing : k <= j] = result_data]
        ELSE Append(generation_results, result_data)

\* The status of the first record of task_id, None when it has none.
RecordStatus(task_id) ==
    IF RecordsOf(task_id) = {} THEN None
    ELSE generation_results[CHOOSE k \in RecordsOf(task_id) :
                               \A j \in RecordsOf(task_id) : k <= j].status

AppInit ==
    /\ BatchInit
    /\ progress_callback = None
    /\ session = None
    /\ stat_results = <<>>
    /\ statistics = <<>>
    /\ AppStart

\* generate_videos: `async with VideoGenerator(api_key)` constructs the
\* generator and __aenter__ opens its session; then the for loop starts.
EnterGenerateVideos ==
    /\ app_pc = "start"
    /\ session' = ClientSession
    /\ audit' = [NoAudit EXCEPT !.opens = 1]
    /\ IF N = 0
       THEN app_pc' = "exit" /\ cur' = 0
       ELSE app_pc' = "submit" /\ cur' = 1
    /\ UNCHANGED <<prompts, attempt, submitted, elapsed, polls, generation_tasks,
                   generation_results, batch_only>>

\* generate_videos: one attempt of generate_video for prompts[cur]; its result
\* is recorded in generation_tasks, and its exception leaves the `async with`.
SubmitPrompt ==
    /\ app_pc = "submit"
    /\ \E resp \in SubmitResponses(cur) :
         LET step == GenerateVideoStep(prompts[cur], attempt[cur], resp, session)
             out == step.out
         IN  /\ audit' = IF step.posted
                         THEN [audit EXCEPT !.request_session = session] ELSE audit
             /\ CASE out.kind = "retry" ->
                       /\ attempt' = [attempt EXCEPT ![cur] = @ + 1]
                       /\ UNCHANGED <<app_pc, submitted, generation_tasks>>
                  [] out.kind = "return" ->
                       /\ attempt' = [attempt EXCEPT ![cur] = 0]
                       /\ submitted' = [submitted EXCEPT ![cur] = out.result]
                       /\ generation_tasks' =
                             Append(generation_tasks,
                                    TaskEntry(out.result.task_id, prompts[cur]))
                       /\ app_pc' = "wait"
                  [] out.kind = "raise" ->
                       /\ attempt' = [attempt EXCEPT ![cur] = 0]
                       /\ app_pc' = "raised"
                       /\ UNCHANGED <<submitted, generation_tasks>>
    /\ UNCHANGED <<prompts, session, cur, elapsed, polls, generation_results, batch_only>>

\* generate_videos: one iteration of wait_for_completion (called without a
\* callback) for the task of prompts[cur]; the result it returns is appended
\* to generation_results and the loop goes on to the next prompt.
AwaitPrompt ==
    /\ app_pc = "wait"
    /\ \E resp \in StatusResponses(prompts[cur]) :
         LET iteration == WaitIteration(submitted[cur].task_id, elapsed[cur], resp,
                                        None, None)
             out == iteration.out
         IN  /\ audit' = IF iteration.polled
                         THEN [audit EXCEPT !.request_session = session] ELSE audit
             /\ CASE out.kind = "sleep" ->
                       /\ \E latency \in {0, SlowPoll} :
                            /\ latency = 0 => polls[cur] < MaxFastPolls
                            /\ elapsed' = [elapsed EXCEPT ![cur] = @ + latency + out.delay]
                       /\ polls' = [polls EXCEPT ![cur] = @ + 1]
                       /\ UNCHANGED <<app_pc, cur, submitted, generation_results>>
                  [] out.kind = "return" ->
                       /\ generation_results' =
                             Append(generation_results,
                                    ResultData(out.result, IsoOrEmpty(out.result.created_at)))
                       /\ elapsed' = [elapsed EXCEPT ![cur] = 0]
                       /\ polls' = [polls EXCEPT ![cur] = 0]
                       /\ submitted' = [submitted EXCEPT ![cur] = NoResult]
                       /\ IF cur < N
                          THEN app_pc' = "submit" /\ cur' = cur + 1
                          ELSE app_pc' = "exit" /\ cur' = cur
                  [] out.kind = "raise" ->
                       /\ elapsed' = [elapsed EXCEPT ![cur] = 0]
                       /\ polls' = [polls EXCEPT ![cur] = 0]
                       /\ submitted' = [submitted EXCEPT ![cur] = NoResult]
                       /\ app_pc' = "raised"
                       /\ UNCHANGED <<cur, generation_results>>
    /\ UNCHANGED <<prompts, session, attempt, generation_tasks, batch_only>>

\* check_generation_status: returns at once without tasks; otherwise a new
\* generator is constructed and entered, and the loop over the tasks starts.
EnterCheckGenerationStatus ==
    /\ app_pc = "idle"
    /\ generation_tasks # <<>>
    /\ session' = ClientSession
    /\ audit' = [NoAudit EXCEPT !.opens = 1]
    /\ app_pc' = "check"
    /\ cur' = 1
    /\ UNCHANGED <<prompts, attempt, submitted, elapsed, polls, generation_tasks,
                   generation_results, batch_only>>

\* check_generation_status: one pass of the loop, for generation_tasks[cur]: a
\* finished task is skipped; any other is polled once with check_status and
\* its record replaced or appended; an exception leaves the `async with`.
CheckTask ==
    /\ app_pc = "check"
    /\ LET task == generation_tasks[cur]
           next_pc == IF cur < Len(generation_tasks) THEN "check" ELSE "exit"
       IN  IF Skipped(task.task_id)
           THEN /\ app_pc' = next_pc
                /\ cur' = cur + 1
                /\ UNCHANGED <<generation_results, audit>>
           ELSE \E resp \in StatusResponses(task.prompt) :
                  LET checked == CheckStatus(task.task_id, resp)
                  IN  /\ audit' = [audit EXCEPT
                                     !.request_session = session,
                                     !.poll_task = task.task_id,
                                     !.poll_record = RecordStatus(task.task_id)]
                      /\ IF checked.kind = "raise"
                         THEN /\ app_pc' = "raised"
                              /\ UNCHANGED <<cur, generation_results>>
                         ELSE /\ generation_results' =
                                    Updated(ResultData(checked.result, task.created_at))
                              /\ app_pc' = next_pc
                              /\ cur' = cur + 1
    /\ UNCHANGED <<prompts, session, attempt, submitted, elapsed, polls,
                   generation_tasks, batch_only>>

\* An __aexit__ that closes the session only when the body ended normally.
AExitKeepingSessionOnError ==
    /\ app_pc \in {"exit", "raised"}
    /\ IF app_pc = "exit" /\ session # None
       THEN /\ session' = ClosedSession
            /\ audit' = [audit EXCEPT !.closes = @ + 1]
       ELSE UNCHANGED <<session, audit>>
    /\ app_pc' = "idle"
    /\ cur' = 0
    /\ UNCHANGED <<prompts, attempt, submitted, elapsed, polls, generation_tasks,
                   generation_results, batch_only>>

\* __aexit__, run on leaving the `async with` normally or by an exception
\* (which the function's `except Exception` then logs): `if self.session:
\* await self.session.close()`.
AExit ==
    /\ app_pc \in {"exit", "raised"}
    /\ IF session # None
       THEN /\ session' = ClosedSession
            /\ audit' = [audit EXCEPT !.closes = @ + 1]
       ELSE UNCHANGED <<session, audit>>
    /\ app_pc' = "idle"
    /\ cur' = 0
    /\ UNCHANGED <<prompts, attempt, submitted, elapsed, polls, generation_tasks,
                   generation_results, batch_only>>

AppNext ==
    \/ EnterGenerateVideos
    \/ SubmitPrompt
    \/ AwaitPrompt
    \/ EnterCheckGenerationStatus
    \/ CheckTask
    \/ AExit

AppSpec == AppInit /\ [][AppNext]_vars

\* ================================================================= claims

\* The jobs inside `async with semaphore`: submitting or polling.
InPhase == {i \in 1..N : pc[i] \in {"submit", "wait"}}

\* The result generate_with_semaphore builds when processing index i - 1 raised.
IsFailedEntry(i, r) == r.task_id = FailedNames[i]

\* C1: in every reachable state of batch_generate the number of jobs that hold
\* a semaphore slot (in their submit/poll phase) is at most
\* MAX_CONCURRENT_REQUESTS, whatever the number of prompts and the interleaving.
C1_AtMostCapInPhase ==
    /\ Cardinality(InPhase) <= MAX_CONCURRENT_REQUESTS
    /\ semaphore = MAX_CONCURRENT_REQUESTS - Cardinality(InPhase)

\* C1 witness: every slot is taken while another prompt waits for one.
C1_Witness ==
    /\ Cardinality(InPhase) = MAX_CONCURRENT_REQUESTS
    /\ \E i \in 1..N : pc[i] = "waiting"

\* C2: batch_generate returns one result per prompt, whatever jobs failed in
\* submit, in a poll or by timeout: every finished job has handed gather a
\* result (none ended in an exception), and the returned list has
\* len(prompts) entries.
C2_OneResultPerPrompt ==
    /\ \A i \in 1..N : pc[i] = "done" => results[i].status \in {"completed", "failed"}
    /\ batch_pc = "returned" =>
          /\ Len(returned) = Len(prompts)
          /\ \A i \in 1..N : returned[i].status \in {"completed", "failed"}

\* C2 witness: batch_generate has returned for two prompts, one of which failed
\* with an exception and the other completed.
C2_Witness ==
    /\ batch_pc = "returned"
    /\ Len(returned) = 2
    /\ \E i, j \in 1..N :
          /\ IsFailedEntry(i, returned[i])
          /\ returned[j].status = "completed"

\* The status responses job i has had that check_status turned into a result.
Snapshots(i) == {k \in 1..Len(poll_log[i]) : poll_log[i][k].checked.kind = "return"}

\* The last status response job i has had is a result with a terminal status.
LastPollTerminal(i) ==
    /\ Len(poll_log[i]) > 0
    /\ Len(poll_log[i]) \in Snapshots(i)
    /\ Terminal(poll_log[i][Len(poll_log[i])].checked.result.status)

LastSnapshot(i) == poll_log[i][Len(poll_log[i])].checked.result

\* C3: progress_callback is optional. With it omitted (None) a job ends as it
\* does with a callback that does nothing: a job whose last poll gave a
\* terminal result is returned with that result's status, video_url and
\* error_message (completed, for success-flag 1 with a URL), and no job fails
\* because the callback could not be called.
C3_CallbackOptional ==
    \A i \in 1..N :
        pc[i] = "done" =>
            /\ results[i].error_message # ERR_not_callable
            /\ LastPollTerminal(i) =>
                  /\ results[i].status = LastSnapshot(i).status
                  /\ results[i].video_url = LastSnapshot(i).video_url
                  /\ results[i].error_message = LastSnapshot(i).error_message

\* The payload of poll k of job i has success-flag 1 and no result URL.
SuccessWithoutUrls(i, k) ==
    /\ k \in Snapshots(i)
    /\ DictGet(poll_log[i][k].resp.data, "successFlag", 0) = 1
    /\ ResultUrls(poll_log[i][k].resp.data) = <<>>

\* C5: for a status payload with success-flag 1 and an empty or missing
\* resultUrls, check_status returns a non-terminal result, and
\* wait_for_completion does not return on that poll.
C5_EmptyUrlsNotTerminal ==
    \A i \in 1..N : \A k \in 1..Len(poll_log[i]) :
        SuccessWithoutUrls(i, k) =>
            /\ ~Terminal(poll_log[i][k].checked.result.status)
            /\ (k = Len(poll_log[i]) /\ pc[i] = "done") => IsFailedEntry(i, results[i])

\* C6: for a status payload whose success-flag is neither 0 nor 1, check_status
\* returns status failed with a non-empty error message: the payload's
\* errorMessage when it has one, otherwise "Unknown error".
C6_OtherFlagsFailWithMessage ==
    \A i \in 1..N : \A k \in Snapshots(i) :
        LET data == poll_log[i][k].resp.data
            r == poll_log[i][k].checked.result
        IN  DictGet(data, "successFlag", 0) \notin {0, 1} =>
                /\ r.status = "failed"
                /\ Truthy(r.error_message)
                /\ r.error_message =
                      IF Truthy(DictGet(data, "errorMessage", None))
                      THEN data.errorMessage ELSE UNKNOWN_ERROR

\* The invariant of a result: a video URL exactly when completed, an error
\* message exactly when failed.
WellFormed(r) ==
    /\ Truthy(r.video_url) <=> r.status = "completed"
    /\ Truthy(r.error_message) <=> r.status = "failed"

\* C7: every result produced by generate_video, check_status,
\* wait_for_completion or batch_generate has a non-empty video_url iff its
\* status is completed and a non-empty error_message iff its status is failed.
C7_ResultsWellFormed ==
    /\ \A i \in 1..N :
          /\ pc[i] = "wait" => WellFormed(submitted[i])
          /\ \A k \in Snapshots(i) : WellFormed(poll_log[i][k].checked.result)
          /\ pc[i] = "done" => WellFormed(results[i])
    /\ \A i \in 1..Len(returned) : WellFormed(returned[i])

\* C4: a failed job releases its slot (the free slots and the jobs in phase
\* always add up to the cap), and with fair scheduling and remote calls that
\* return, every prompt is eventually admitted to a slot and batch_generate
\* eventually returns.
C4_FailureDoesNotBlock ==
    /\ [](semaphore + Cardinality(InPhase) = MAX_CONCURRENT_REQUESTS)
    /\ \A i \in Jobs : [](i \in 1..N => <>(pc[i] # "waiting"))
    /\ <>(batch_pc = "returned")

\* C4 witness: a job has failed with an exception, and a job that was not in
\* phase with it now is.
C4_Witness ==
    \E i, j \in 1..N :
        /\ pc[i] = "done" /\ IsFailedEntry(i, results[i])
        /\ pc[j] \in {"submit", "wait"}
        /\ semaphore = MAX_CONCURRENT_REQUESTS - 1

\* The callback wait_for_completion was given for job i returned normally on
\* every snapshot so far.
CallbackReturned == ~CallbackRaises("lambda", progress_callback)

\* C8: wait_for_completion returns at the first terminal status and only then.
\* Every status request before the last one gave a non-terminal result and was
\* followed by one sleep of POLLING_INTERVAL; when the n-th gives a terminal
\* result the loop ends there, after n requests and n - 1 sleeps, returning that
\* result (given that the progress callback returned normally on it), and a
\* result is returned in no other case.
C8_ReturnsAtFirstTerminalPoll ==
    \A i \in 1..N :
        Traced =>
            LET n == Len(poll_log[i])
            IN  /\ polls[i] = n
                /\ \A k \in 1..(n - 1) :
                      /\ k \in Snapshots(i)
                      /\ ~Terminal(poll_log[i][k].checked.result.status)
                /\ \A k \in 1..Len(poll_sleeps[i]) : poll_sleeps[i][k] = POLLING_INTERVAL
                /\ pc[i] = "wait" => Len(poll_sleeps[i]) = n /\ ~LastPollTerminal(i)
                /\ LastPollTerminal(i) =>
                      /\ pc[i] = "done"
                      /\ Len(poll_sleeps[i]) = n - 1
                      /\ CallbackReturned => results[i] = LastSnapshot(i)
                /\ (pc[i] = "done" /\ ~IsFailedEntry(i, results[i])) =>
                      /\ LastPollTerminal(i)
                      /\ results[i] = LastSnapshot(i)

\* C8 witness: the success flags polled were 0, 0, 1 (with a result URL), and
\* wait_for_completion returned completed after 3 requests and 2 sleeps of
\* POLLING_INTERVAL.
C8_Witness ==
    \E i \in 1..N :
        /\ pc[i] = "done"
        /\ Len(poll_log[i]) = 3
        /\ [k \in 1..3 |-> DictGet(poll_log[i][k].resp.data, "successFlag", 0)] = <<0, 0, 1>>
        /\ results[i].status = "completed"
        /\ results[i].video_url = "url_a"
        /\ poll_sleeps[i] = <<POLLING_INTERVAL, POLLING_INTERVAL>>

\* Job i has left wait_for_completion having had only non-terminal results.
LeftWithoutTerminal(i) ==
    /\ pc[i] = "done"
    /\ Len(poll_log[i]) > 0
    /\ \A k \in 1..Len(poll_log[i]) :
          /\ k \in Snapshots(i)
          /\ ~Terminal(poll_log[i][k].checked.result.status)

\* C9: wait_for_completion never loops forever: every job that polls
\* eventually leaves the loop; no status request is issued once the time
\* elapsed since loop entry exceeds MAX_POLLING_TIME; and a job that leaves the
\* loop without any terminal status (every poll and callback having returned)
\* leaves it by the timeout error.
C9_TimeoutEndsPolling ==
    /\ \A i \in Jobs : [](pc[i] = "wait" => <>(pc[i] = "done"))
    /\ [](\A i \in 1..N : \A k \in 1..Len(poll_log[i]) :
              poll_log[i][k].at <= MAX_POLLING_TIME)
    /\ [](\A i \in 1..N :
              (LeftWithoutTerminal(i) /\ CallbackReturned) =>
                  results[i] = FailedResult(i, prompts[i], ERR_timeout_error))

\* C9 witness: a job whose polls all gave a non-terminal status has ended with
\* the timeout error.
C9_Witness ==
    \E i \in 1..N :
        /\ LeftWithoutTerminal(i)
        /\ Len(poll_log[i]) >= 2
        /\ results[i].error_message = ERR_timeout_error

\* The HTTP statuses of the POSTs job i has made (0: no response).
PostStatuses(i) == [k \in 1..Len(post_log[i]) |-> post_log[i][k].status]

\* C10: when the k-th attempt of generate_video (k = 1..MAX_RETRIES-1) gets
\* HTTP 429, the sleep before the next attempt is RETRY_DELAY * k; after 429,
\* 429, 200 with a taskId it has slept 2 then 4 and returns a pending result
\* on the 3rd attempt.
C10_LinearBackoffOn429 ==
    \A i \in 1..N :
        /\ \A k \in 1..Len(post_log[i]) :
              (post_log[i][k].status = 429 /\ k <= MAX_RETRIES - 1) =>
                  /\ Len(retry_sleeps[i]) >= k
                  /\ retry_sleeps[i][k] = RETRY_DELAY * k
        /\ (PostStatuses(i) = <<429, 429, 200>> /\ pc[i] = "wait") =>
              /\ retry_sleeps[i] = <<2, 4>>
              /\ submitted[i].status = "pending"

\* C10 witness: 429, 429, then 200 with a taskId: slept 2 and 4, pending result.
C10_Witness ==
    \E i \in 1..N :
        /\ PostStatuses(i) = <<429, 429, 200>>
        /\ retry_sleeps[i] = <<RETRY_DELAY, RETRY_DELAY * 2>>
        /\ pc[i] = "wait"
        /\ submitted[i] = [VideoGenerationResult(TaskNames[i], prompts[i], "pending")
                             EXCEPT !.created_at = Now]

\* C11: the linear backoff applies to network errors as to HTTP 429: when the
\* k-th attempt of generate_video (k = 1..MAX_RETRIES-1) fails with a
\* network-level error, the sleep before the next attempt is RETRY_DELAY * k
\* (2 then 4).
C11_LinearBackoffOnNetworkError ==
    \A i \in 1..N :
        \A k \in 1..Len(post_log[i]) :
            (post_log[i][k].net /\ k <= MAX_RETRIES - 1) =>
                /\ Len(retry_sleeps[i]) >= k
                /\ retry_sleeps[i][k] = RETRY_DELAY * k

\* The response resp to a POST is one generate_video retries after: HTTP 429
\* or an aiohttp.ClientError.
Retryable(resp) == resp.net \/ resp.status = 429

\* What job i's k-th POST made of generate_video's loop.
PostOutcome(i, k) == GenerateVideoAttempt(prompts[i], k - 1, post_log[i][k])

\* C12: a non-retryable submit failure aborts at once. When a POST of
\* generate_video gets HTTP 401, HTTP 200 with a non-success code, HTTP 200
\* without a taskId, or an HTTP status other than 200, 401 and 429, that POST
\* is the job's last, no sleep follows it, and the job has ended with the
\* exception raised for that response, whatever attempts remained.
C12_NonRetryableAbortsAtOnce ==
    \A i \in 1..N :
        \A k \in 1..Len(post_log[i]) :
            LET resp == post_log[i][k]
                fatal == /\ ~Retryable(resp)
                         /\ ~(resp.status = 200 /\ resp.code = 200 /\ Truthy(resp.taskId))
            IN  fatal =>
                    /\ k = Len(post_log[i])
                    /\ Len(retry_sleeps[i]) = k - 1
                    /\ pc[i] = "done"
                    /\ PostOutcome(i, k).kind = "raise"
                    /\ results[i] = FailedResult(i, prompts[i], PostOutcome(i, k).msg)

\* C12 witness: the first POST got HTTP 401 and the job ended there with the
\* invalid-key error, with no sleep and MAX_RETRIES - 1 attempts unused.
C12_Witness ==
    \E i \in 1..N :
        /\ PostStatuses(i) = <<401>>
        /\ retry_sleeps[i] = <<>>
        /\ pc[i] = "done"
        /\ results[i].error_message = ERR_invalid_api_key

\* C13: for every sequence of remote responses, with any mix of HTTP 429 and
\* network errors, one call of generate_video issues at most MAX_RETRIES POSTs;
\* when all MAX_RETRIES attempts failed with retryable errors the call has
\* ended by raising the error of the last attempt (rate limit or network).
C13_AtMostMaxRetriesPosts ==
    \A i \in 1..N :
        /\ Len(post_log[i]) <= MAX_RETRIES
        /\ (/\ Len(post_log[i]) = MAX_RETRIES
            /\ \A k \in 1..MAX_RETRIES : Retryable(post_log[i][k])) =>
              /\ pc[i] = "done"
              /\ results[i] =
                    FailedResult(i, prompts[i],
                                 IF post_log[i][MAX_RETRIES].net
                                 THEN ERR_network_error ELSE ERR_rate_limit)

\* C13 witness: HTTP 429, a network error and HTTP 429 again used up the
\* attempts, and the job ended with the rate-limit error after 3 POSTs.
C13_Witness ==
    \E i \in 1..N :
        /\ PostStatuses(i) = <<429, 0, 429>>
        /\ post_log[i][2].net
        /\ pc[i] = "done"
        /\ results[i].error_message = ERR_rate_limit

\* The message of the exception that ended the processing of job i of a
\* traced run, from what the job did; None when it ended without one.
ExpectedFailure(i) ==
    IF session = None
    THEN ERR_no_session
    ELSE IF poll_log[i] = <<>>
    THEN IF Len(post_log[i]) > 0 /\ PostOutcome(i, Len(post_log[i])).kind = "raise"
         THEN PostOutcome(i, Len(post_log[i])).msg
         ELSE None
    ELSE IF poll_log[i][Len(poll_log[i])].checked.kind = "raise"
    THEN poll_log[i][Len(poll_log[i])].checked.msg
    ELSE IF ~CallbackReturned
    THEN ERR_not_callable
    ELSE IF LastPollTerminal(i)
    THEN None
    ELSE ERR_timeout_error

C15_SetupErrorPropagates ==
    session = None =>
        /\ \A i \in 1..N : pc[i] = "done" => ~IsFailedEntry(i, results[i])
        /\ N > 0 => batch_pc # "returned"

\* C16: every result returned by wait_for_completion or batch_generate has
\* the input prompt of its job in the prompt field, whatever the paramJson of
\* the status payload.
C16_PromptIsInputPrompt ==
    /\ \A i \in 1..N : pc[i] = "done" => results[i].prompt = prompts[i]
    /\ \A i \in 1..Len(returned) : returned[i].prompt = prompts[i]

\* C17: the final result of a successfully submitted job is the record made
\* at submission, changed only by polling: it has the task id and the
\* created_at generate_video assigned and the prompt of the submission; only
\* status, video_url, error_message and completed_at may differ.
C17_FinalResultKeepsSubmission ==
    \A i \in 1..N :
        (Traced /\ pc[i] = "done" /\ ~IsFailedEntry(i, results[i])) =>
            /\ results[i].task_id = post_log[i][Len(post_log[i])].taskId
            /\ results[i].created_at = Now
            /\ results[i].prompt = prompts[i]

\* The value of a ratio is the integer or fraction n / d.
RatioIs(r, n, d) == r.den > 0 /\ r.num * d = n * r.den

\* C18: for every list of results whose statuses are among pending,
\* processing, completed and failed, get_statistics returns
\* completed + failed + pending = total, with total the length of the list.
C18_CountsAddUpToTotal ==
    \A c \in 1..Len(statistics) :
        LET st == statistics[c]
        IN  /\ st.total = Len(stat_results)
            /\ (\A k \in 1..Len(stat_results) :
                   stat_results[k].status \in {"pending", "processing", "completed", "failed"})
               => st.completed + st.failed + st.pending = st.total

\* C18 witness: get_statistics returned for a processing and a failed result:
\* pending 1, failed 1, total 2.
C18_Witness ==
    /\ Len(statistics) = 1
    /\ Len(stat_results) = 2
    /\ stat_results[1].status = "processing"
    /\ stat_results[2].status = "failed"
    /\ statistics[1].pending = 1 /\ statistics[1].failed = 1 /\ statistics[1].total = 2

\* C19: for every list of results get_statistics returns success_rate equal to
\* completed / total * 100, which lies in [0, 100], and 0 for the empty list.
C19_SuccessRate ==
    \A c \in 1..Len(statistics) :
        LET rate == statistics[c].success_rate
            total == Len(stat_results)
            completed == Cardinality({k \in 1..total : stat_results[k].status = "completed"})
        IN  /\ rate.den > 0
            /\ 0 <= rate.num /\ rate.num <= 100 * rate.den
            /\ total > 0 => RatioIs(rate, completed * 100, total)
            /\ total = 0 => RatioIs(rate, 0, 1)

\* C19 witness: one of two results is completed, and the success rate is 50.
C19_Witness ==
    /\ Len(statistics) = 1
    /\ Len(stat_results) = 2
    /\ stat_results[1].status = "completed"
    /\ stat_results[2].status = "failed"
    /\ RatioIs(statistics[1].success_rate, 50, 1)

\* The results that count for average_time: completed, with both timestamps.
Timed == {k \in 1..Len(stat_results) :
             /\ stat_results[k].status = "completed"
             /\ stat_results[k].created_at # NoTime
             /\ stat_results[k].completed_at # NoTime}

\* The sum of completed_at - created_at over the results of the index set S.
RECURSIVE TotalSeconds(_)
TotalSeconds(S) ==
    IF S = {} THEN 0
    ELSE LET k == CHOOSE x \in S : TRUE
         IN  stat_results[k].completed_at[1] - stat_results[k].created_at[1]
               + TotalSeconds(S \ {k})

\* C20: get_statistics returns as average_time the mean of
\* completed_at - created_at over exactly the results with status completed
\* and both timestamps, and 0 when there is none; failed or pending results
\* and completed results lacking a timestamp do not contribute.
C20_AverageTime ==
    \A c \in 1..Len(statistics) :
        LET avg == statistics[c].average_time
        IN  IF Timed = {}
            THEN RatioIs(avg, 0, 1)
            ELSE RatioIs(avg, TotalSeconds(Timed), Cardinality(Timed))

\* C20 witness: a completed result that took 2 seconds and a failed one with
\* both timestamps 1 second apart: the average is 2.
C20_Witness ==
    /\ Len(statistics) = 1
    /\ Len(stat_results) = 2
    /\ stat_results[1].status = "completed"
    /\ stat_results[1].created_at = At(0) /\ stat_results[1].completed_at = At(2)
    /\ stat_results[2].status = "failed"
    /\ stat_results[2].created_at = At(0) /\ stat_results[2].completed_at = At(1)
    /\ RatioIs(statistics[1].average_time, 2, 1)

\* C22: check_status maps success-flag 0 to a pending result with no video_url,
\* error_message or completed_at, and success-flag 1 with a non-empty
\* resultUrls to status completed with video_url the first URL of the list and
\* completed_at set; completed_at is set in no other case.
C22_StatusMapping ==
    \A i \in 1..N : \A k \in Snapshots(i) :
        LET data == poll_log[i][k].resp.data
            r == poll_log[i][k].checked.result
            flag == DictGet(data, "successFlag", 0)
            urls == ResultUrls(data)
        IN  /\ flag = 0 =>
                  /\ r.status = "pending" /\ ~Terminal(r.status)
                  /\ r.video_url = None
                  /\ r.error_message = None
                  /\ r.completed_at = None
            /\ (flag = 1 /\ urls # <<>>) =>
                  /\ r.status = "completed"
                  /\ r.video_url = urls[1]
                  /\ r.completed_at = Now
            /\ r.completed_at # None => (flag = 1 /\ urls # <<>>)

\* C22 witness: a poll answered with success-flag 1 and the URLs url_a, url_b
\* gave a completed result with url_a, after a poll answered with flag 0 gave
\* a pending one.
C22_Witness ==
    \E i \in 1..N :
        /\ Len(poll_log[i]) = 2
        /\ Snapshots(i) = {1, 2}
        /\ poll_log[i][1].resp.data.successFlag = 0
        /\ poll_log[i][1].checked.result.status = "pending"
        /\ ResultUrls(poll_log[i][2].resp.data) = <<"url_a", "url_b">>
        /\ poll_log[i][2].checked.result.video_url = "url_a"
        /\ poll_log[i][2].checked.result.completed_at = Now

\* The status response resp is one check_status raises on.
PollFails(resp) == resp.net \/ resp.status # 200 \/ resp.code # 200

\* C23: poll failures are not retried. Each iteration of the polling loop
\* makes one status request; check_status raises on a network error, a non-200
\* HTTP status or a non-success code; wait_for_completion passes the error on:
\* the first failing poll is the task's last, and the job has ended with that
\* error.
C23_PollFailureEndsPolling ==
    \A i \in 1..N :
        Traced =>
            /\ polls[i] = Len(poll_log[i])
            /\ \A k \in 1..Len(poll_log[i]) :
                  /\ PollFails(poll_log[i][k].resp) <=> poll_log[i][k].checked.kind = "raise"
                  /\ PollFails(poll_log[i][k].resp) =>
                        /\ k = Len(poll_log[i])
                        /\ Len(poll_sleeps[i]) = k - 1
                        /\ pc[i] = "done"
                        /\ results[i] =
                              FailedResult(i, prompts[i], poll_log[i][k].checked.msg)

\* C23 witness: after one pending poll the second status request got HTTP 500
\* and the job ended there with the status-check error.
C23_Witness ==
    \E i \in 1..N :
        /\ Len(poll_log[i]) = 2
        /\ poll_log[i][1].checked.kind = "return"
        /\ poll_log[i][2].resp.status = 500
        /\ pc[i] = "done"
        /\ results[i].error_message = ERR_status_http

\* The results of job i's status requests that returned one, in poll order.
SnapshotResults(i) ==
    LET returnedPolls == SelectSeq(poll_log[i], LAMBDA e : e.checked.kind = "return")
    IN  [k \in 1..Len(returnedPolls) |-> returnedPolls[k].checked.result]

\* C27: wait_for_completion calls the progress callback it was given exactly
\* once per poll, with that poll's snapshot, in poll order and before deciding
\* whether to return: the terminal snapshot it returns has been delivered to
\* the callback too; and an exception raised by the callback ends the loop
\* without a result being returned.
C27_CallbackOncePerPoll ==
    \A i \in 1..N :
        Traced =>
            /\ callback_log[i] = SnapshotResults(i)
            /\ (pc[i] = "done" /\ ~IsFailedEntry(i, results[i])) =>
                  /\ Len(callback_log[i]) > 0
                  /\ callback_log[i][Len(callback_log[i])] = results[i]
            /\ (~CallbackReturned /\ Len(callback_log[i]) > 0) =>
                  /\ Len(callback_log[i]) = 1
                  /\ pc[i] = "done"
                  /\ results[i] = FailedResult(i, prompts[i], ERR_not_callable)

\* C27 witness: the callback was called with two pending snapshots and then
\* with the failed one, which wait_for_completion returned.
C27_Witness ==
    \E i \in 1..N :
        /\ progress_callback = Callable
        /\ Len(poll_log[i]) = 3
        /\ Len(callback_log[i]) = 3
        /\ [k \in 1..3 |-> callback_log[i][k].status] = <<"pending", "pending", "failed">>
        /\ pc[i] = "done"
        /\ results[i] = callback_log[i][3]

\* C24: the list batch_generate returns is index-stable: entry i is the
\* outcome of prompts[i], that is the result polled for the task id the submit
\* of prompts[i] returned, or the failed entry of index i, whatever the order
\* in which the jobs completed.
C24_IndexStable ==
    /\ \A i \in 1..N :
          /\ pc[i] = "wait" =>
                submitted[i].task_id = TaskNames[i] /\ submitted[i].prompt = prompts[i]
          /\ pc[i] = "done" =>
                \/ results[i].task_id = TaskNames[i]
                \/ IsFailedEntry(i, results[i]) /\ results[i].prompt = prompts[i]
    /\ batch_pc = "returned" =>
          /\ Len(returned) = N
          /\ \A i \in 1..N :
                /\ returned[i] = results[i]
                /\ returned[i].task_id \in {TaskNames[i], FailedNames[i]}

\* C24 witness: the job of the second prompt has completed while the first
\* prompt still waits for a slot, and its result is the one held for entry 2.
C24_Witness ==
    /\ N = 2
    /\ pc[1] = "waiting"
    /\ pc[2] = "done"
    /\ results[2].task_id = TaskNames[2]
    /\ results[2].status = "completed"

\* The response resp to a POST carries the task id of a job the remote created.
Created(resp) ==
    ~resp.net /\ resp.status = 200 /\ resp.code = 200 /\ Truthy(resp.taskId)

\* C26: each prompt leads to at most one successfully created remote job:
\* generate_video makes no POST after the one that returned a task id, and the
\* job is not submitted again after a poll failure or a timeout; the task ids
\* obtained are never more than the prompts.
C26_AtMostOneJobPerPrompt ==
    /\ \A i \in 1..N :
          /\ \A k \in 1..Len(post_log[i]) :
                Created(post_log[i][k]) =>
                    /\ k = Len(post_log[i])
                    /\ pc[i] \in {"wait", "done"}
          /\ (Traced /\ pc[i] = "wait") => Created(post_log[i][Len(post_log[i])])
          /\ Len(poll_log[i]) > 0 => Created(post_log[i][Len(post_log[i])])
    /\ Cardinality({ik \in (1..N) \X (1..MAX_RETRIES) :
                       /\ ik[2] <= Len(post_log[ik[1]])
                       /\ Created(post_log[ik[1]][ik[2]])}) <= N

\* C26 witness: a job created by the second POST has ended by the polling
\* timeout, with that POST still the only one that returned a task id.
C26_Witness ==
    \E i \in 1..N :
        /\ PostStatuses(i) = <<429, 200>>
        /\ Created(post_log[i][2])
        /\ pc[i] = "done"
        /\ results[i].error_message = ERR_timeout_error

\* C28: the status of every result of generate_video, check_status,
\* wait_for_completion and batch_generate is pending, completed or failed,
\* never processing; what generate_video returns is pending, with the
\* non-empty task id of the remote response.
C28_StatusVocabulary ==
    /\ \A i \in 1..N :
          /\ pc[i] = "wait" =>
                /\ submitted[i].status = "pending"
                /\ Truthy(submitted[i].task_id)
                /\ Traced => submitted[i].task_id = post_log[i][Len(post_log[i])].taskId
          /\ \A k \in Snapshots(i) :
                poll_log[i][k].checked.result.status \in {"pending", "completed", "failed"}
          /\ pc[i] = "done" => results[i].status \in {"pending", "completed", "failed"}
    /\ \A i \in 1..Len(returned) :
          returned[i].status \in {"pending", "completed", "failed"}

\* C28 witness: generate_video has returned a pending result with the remote's
\* task id, and a poll answered with success-flag 0 gave a pending snapshot.
C28_Witness ==
    \E i \in 1..N :
        /\ pc[i] = "wait"
        /\ submitted[i].status = "pending"
        /\ submitted[i].task_id = TaskNames[i]
        /\ Len(poll_log[i]) = 1
        /\ 1 \in Snapshots(i)
        /\ poll_log[i][1].checked.result.status = "pending"

\* C29: generate_video never sleeps after its last attempt: when the
\* MAX_RETRIES-th attempt gets HTTP 429 it raises the rate-limit error, when it
\* gets a network error the network error, with MAX_RETRIES - 1 sleeps made in
\* all; the generation-failed error after the loop is raised only when
\* MAX_RETRIES is 0.
C29_NoSleepAfterLastAttempt ==
    \A i \in 1..N :
        /\ Len(retry_sleeps[i]) <= MAX_RETRIES - 1 \/ MAX_RETRIES = 0
        /\ (Len(post_log[i]) = MAX_RETRIES /\ Retryable(post_log[i][MAX_RETRIES])) =>
              /\ Len(retry_sleeps[i]) = MAX_RETRIES - 1
              /\ pc[i] = "done"
              /\ post_log[i][MAX_RETRIES].net =>
                    results[i].error_message = ERR_network_error
              /\ ~post_log[i][MAX_RETRIES].net =>
                    results[i].error_message = ERR_rate_limit
        /\ (pc[i] = "done" /\ results[i].error_message = ERR_generation_failed) =>
              MAX_RETRIES = 0

\* C29 witness: three network errors: two sleeps, then the network error.
C29_Witness ==
    \E i \in 1..N :
        /\ Len(post_log[i]) = MAX_RETRIES
        /\ \A k \in 1..MAX_RETRIES : post_log[i][k].net
        /\ retry_sleeps[i] = <<RETRY_DELAY, RETRY_DELAY>>
        /\ pc[i] = "done"
        /\ results[i].error_message = ERR_network_error

\* The app is inside the body of an `async with VideoGenerator(...)`, or
\* leaving it.
InContext == app_pc \in {"submit", "wait", "check", "exit", "raised"}

\* C21: the client session is acquired once on entering the VideoGenerator
\* context and closed once on leaving it, on every exit path including an
\* exception raised in the body; no submit or poll request is issued on a
\* session that has been closed.
C21_SessionScopedToContext ==
    /\ audit.opens <= 1 /\ audit.closes <= audit.opens
    /\ app_pc = "start" => session = None /\ audit.opens = 0
    /\ InContext => session = ClientSession /\ audit.opens = 1 /\ audit.closes = 0
    /\ app_pc = "idle" => session = ClosedSession /\ audit.opens = 1 /\ audit.closes = 1
    /\ audit.request_session \in {None, ClientSession}

\* C21 witness: generate_videos submitted a task and left the context by an
\* exception raised while waiting for it (the task has no record); requests
\* were made on the open session, and the session is closed.
C21_Witness ==
    /\ app_pc = "idle"
    /\ Len(generation_tasks) = 1
    /\ generation_results = <<>>
    /\ audit.request_session = ClientSession
    /\ audit.poll_task = None
    /\ session = ClosedSession

\* C25: once the record of a task in generation_results is completed or
\* failed, check_generation_status never polls the task again and never
\* replaces or changes the record; it polls and updates only tasks with no
\* record or a non-terminal one; and a task id has at most one record.
C25_TerminalRecordsAreFinal ==
    /\ [](/\ audit.poll_record \in {None, "pending"}
          /\ \A j, k \in 1..Len(generation_results) :
                generation_results[j].task_id = generation_results[k].task_id => j = k)
    /\ [][\A k \in 1..Len(generation_results) :
             Terminal(generation_results[k].status) =>
                 /\ k <= Len(generation_results')
                 /\ generation_results'[k] = generation_results[k]]_vars

\* C25 witness: a call of check_generation_status has passed over the first
\* task, whose record is terminal, and polled the second, which had no record
\* and now has one.
C25_Witness ==
    /\ app_pc = "exit"
    /\ Len(generation_tasks) = 2
    /\ Len(generation_results) = 2
    /\ Terminal(RecordStatus(generation_tasks[1].task_id))
    /\ audit.poll_task = generation_tasks[2].task_id
    /\ audit.poll_record = None
    /\ generation_results[2].task_id = generation_tasks[2].task_id

====
